---- MODULE Spec2Model ----
(***************************************************************************)
(* The RRT growth loop of src/main.rs.                                     *)
(*                                                                         *)
(* Numbers.  Coordinates are f32 in the program.  The model works in exact *)
(* arithmetic on integer coordinates:                                      *)
(*   - a distance sqrt(n) is represented by its radicand n (sqrt is a      *)
(*     strictly increasing bijection on the non-negative numbers, so every *)
(*     comparison of two distances, or of a distance with a non-negative   *)
(*     scalar t, is decided on n and t*t);                                 *)
(*   - an angle is represented by its unit vector (c/den, s/den);          *)
(*   - a growth step is taken only for samples whose steered point is      *)
(*     again an integer point (axis directions and the 3-4-5 directions    *)
(*     for step_size 10).                                                  *)
(* Indices are 0-based as in the program; Node(ns, i) reads ns[i + 1].     *)
(***************************************************************************)
EXTENDS Integers, Sequences, FiniteSets, TLC

\* ---------------------------------------------------------------- bounds
\* loop iterations (frames) explored in the random-sampler specification
MaxFrames == 3
\* loop iterations explored in the forced-sampler specification
MaxScenarioFrames == 11
\* samples are drawn from the lattice {0, step, ..., SampleCells*step}^2
SampleCells == 4

\* ------------------------------------------------------ program constants
PlaneMin == 0
PlaneMax == 400
StepSize == 10
GoalThreshold == 10

VARIABLES
    nodes,           \* rrt.nodes : Vec<Node>
    goal,            \* rrt.goal
    step_size,       \* rrt.step_size
    goal_threshold,  \* rrt.goal_threshold
    goal_reached,    \* main: let mut goal_reached
    optimal_path,    \* main: let mut optimal_path
    rand_point,      \* main: rand_point of the last growth step, <<>> before
    nearest_index,   \* main: nearest_index of the last growth step, <<>> before
    new_point,       \* main: new_point of the last growth step, <<>> before
    samples_drawn,   \* number of random_point calls made by the loop
    add_calls,       \* number of add_node calls made by the loop
    notifications,   \* number of "Goal Reached!" lines printed
    frame            \* number of completed loop iterations

vars == <<nodes, goal, step_size, goal_threshold, goal_reached, optimal_path,
          rand_point, nearest_index, new_point, samples_drawn, add_calls,
          notifications, frame>>

\* ----------------------------------------------------------------- Point
Pt(x, y) == [x |-> x, y |-> y]

\* the x difference is squared twice and the y difference is never used
distance_x_twice(a, b) == (a.x - b.x) * (a.x - b.x) + (a.x - b.x) * (a.x - b.x)

\* Point::distance, as the radicand of the square root
distance(a, b) == (a.x - b.x) * (a.x - b.x) + (a.y - b.y) * (a.y - b.y)

\* f32 `<` between a distance and a non-negative scalar
DistLtScalar(d, t) == d < t * t

\* f32::partial_cmp of two distances
partial_cmp(d1, d2) ==
    IF d1 < d2 THEN "Less" ELSE IF d1 = d2 THEN "Equal" ELSE "Greater"

\* ------------------------------------------------------------------ Node
None == <<>>
Some(i) == <<i>>
IsSome(o) == Len(o) > 0
Unwrap(o) == o[1]

Node_new(point, parent) == [point |-> point, parent |-> parent]

Node(ns, i) == ns[i + 1]

\* ------------------------------------------------------------------- RRT
\* RRT::new : the node list holds the root only
RRT_new(start) == <<Node_new(start, None)>>

\* a scan in which the later element wins a tie
RECURSIVE min_by_last_wins(_, _, _, _)
min_by_last_wins(ns, point, i, best) ==
    IF i >= Len(ns) THEN best
    ELSE min_by_last_wins(ns, point, i + 1,
                IF partial_cmp(distance(Node(ns, best).point, point),
                               distance(Node(ns, i).point, point)) = "Less"
                THEN best ELSE i)

\* Iterator::min_by over enumerate(): the earlier element is kept unless
\* the later one compares strictly smaller
RECURSIVE min_by(_, _, _, _)
min_by(ns, point, i, best) ==
    IF i >= Len(ns) THEN best
    ELSE min_by(ns, point, i + 1,
                IF partial_cmp(distance(Node(ns, best).point, point),
                               distance(Node(ns, i).point, point)) = "Greater"
                THEN i ELSE best)

\* a scan that never looks at the last node
find_nearest_skip_last(ns, point) ==
    IF Len(ns) = 1 THEN 0 ELSE min_by(SubSeq(ns, 1, Len(ns) - 1), point, 1, 0)

find_nearest(ns, point) == min_by(ns, point, 1, 0)

Abs(n) == IF n < 0 THEN -n ELSE n

\* the length of (dx, dy) when it is an integer, else 0
Norm(dx, dy) ==
    LET m == Abs(dx) + Abs(dy)
        l == IF Abs(dx) > Abs(dy) THEN Abs(dx) ELSE Abs(dy)
        c == {r \in l..m : r * r = dx * dx + dy * dy}
    IN IF c = {} THEN 0 ELSE CHOOSE r \in c : TRUE

\* f32::atan2(dy, dx) as a unit vector; atan2(0, 0) is the angle 0
atan2(dy, dx) ==
    IF dx = 0 /\ dy = 0 THEN [c |-> 1, s |-> 0, den |-> 1]
    ELSE [c |-> dx, s |-> dy, den |-> Norm(dx, dy)]

\* step * cos(angle), step * sin(angle)
StepCos(step, angle) == (step * angle.c) \div angle.den
StepSin(step, angle) == (step * angle.s) \div angle.den

\* the steered point of (from, to) has integer coordinates
Representable(step, from, to) ==
    LET angle == atan2(to.y - from.y, to.x - from.x)
    IN /\ angle.den > 0
       /\ (step * angle.c) % angle.den = 0
       /\ (step * angle.s) % angle.den = 0

\* from = to is special-cased: no step is taken
steer_stay(from, to) ==
    LET angle == atan2(to.y - from.y, to.x - from.x)
    IN IF from = to THEN from
       ELSE Pt(from.x + StepCos(step_size, angle),
               from.y + StepSin(step_size, angle))

\* the direction is not normalised: the step is step_size times (to - from)
steer_unnormalised(from, to) ==
    Pt(from.x + step_size * (to.x - from.x),
       from.y + step_size * (to.y - from.y))

\* a step that stops at `to` when `to` is nearer than step_size
steer_clamped(from, to) ==
    LET angle == atan2(to.y - from.y, to.x - from.x)
    IN IF from # to /\ DistLtScalar(distance(from, to), step_size) THEN to
       ELSE Pt(from.x + StepCos(step_size, angle),
               from.y + StepSin(step_size, angle))

steer(from, to) ==
    LET angle == atan2(to.y - from.y, to.x - from.x)
    IN Pt(from.x + StepCos(step_size, angle),
          from.y + StepSin(step_size, angle))

\* a check that rejects the points right of the start lattice column
is_collision_free_rejecting(point) == point.x <= 0

is_collision_free(point) == TRUE

\* records the new node's own index as its parent
add_node_self(ns, point, parent_index) ==
    Append(ns, Node_new(point, Some(Len(ns))))

\* inserts the new node at the front of the list
add_node_front(ns, point, parent_index) ==
    <<Node_new(point, Some(parent_index))>> \o ns

\* overwrites the last node instead of pushing
add_node_overwrite(ns, point, parent_index) ==
    [ns EXCEPT ![Len(ns)] = Node_new(point, Some(parent_index))]

add_node(ns, point, parent_index) ==
    Append(ns, Node_new(point, Some(parent_index)))

Reverse(s) == [k \in 1..Len(s) |-> s[Len(s) + 1 - k]]

\* the while-let loop of trace_path; `fuel` bounds the unrolling and is
\* Len(ns), which no parent chain of a tree of the program exhausts
RECURSIVE backtrack(_, _, _, _)
backtrack(ns, current_node_index, path, fuel) ==
    LET n == Node(ns, current_node_index)
    IN IF IsSome(n.parent) /\ fuel > 0
       THEN backtrack(ns, Unwrap(n.parent), Append(path, n.point), fuel - 1)
       ELSE Append(path, n.point)

\* the values current_node_index takes in the loop of trace_path, in order;
\* an index outside the list ends the sequence (the read would panic)
RECURSIVE backtrack_visits(_, _, _, _)
backtrack_visits(ns, current_node_index, visited, fuel) ==
    IF current_node_index \notin 0..(Len(ns) - 1)
    THEN Append(visited, current_node_index)
    ELSE IF IsSome(Node(ns, current_node_index).parent) /\ fuel > 0
         THEN backtrack_visits(ns, Unwrap(Node(ns, current_node_index).parent),
                               Append(visited, current_node_index), fuel - 1)
         ELSE Append(visited, current_node_index)

trace_path_visits(ns) == backtrack_visits(ns, Len(ns) - 1, <<>>, Len(ns))

\* the path is returned as collected, without the reverse
trace_path_unreversed(ns) == backtrack(ns, Len(ns) - 1, <<>>, Len(ns))

\* the final push of the root is left out
trace_path_no_root(ns) ==
    LET p == backtrack(ns, Len(ns) - 1, <<>>, Len(ns))
    IN Reverse(SubSeq(p, 1, Len(p) - 1))

trace_path(ns) == Reverse(backtrack(ns, Len(ns) - 1, <<>>, Len(ns)))

\* ------------------------------------------------------------------ main
\* the goal test of the loop with `<=` in place of `<`
goal_test_le(p) == distance(p, goal) <= goal_threshold * goal_threshold

\* new_point.distance(&rrt.goal) < rrt.goal_threshold
goal_test(p) == DistLtScalar(distance(p, goal), goal_threshold)

\* the growth branch is entered on every frame
growing_always == TRUE

\* if !goal_reached
growing == ~goal_reached

\* the points random_point(0, 400, 0, 400) is taken from: a lattice at the
\* low corner of the plane and the lattice points next to its high corner
Samples ==
    {p \in {Pt(StepSize * i, StepSize * j) : i \in 0..SampleCells, j \in 0..SampleCells}
            \cup {Pt(PlaneMax - StepSize * i, PlaneMax - StepSize * j) : i \in 1..2, j \in 1..2} :
        /\ PlaneMin <= p.x /\ p.x < PlaneMax
        /\ PlaneMin <= p.y /\ p.y < PlaneMax}

\* the start and goal points main is started with
Starts == {Pt(0, 0), Pt(4, 0), Pt(20, 20), Pt(390, 390)}
Goals == {Pt(20, 0), Pt(20, 20), Pt(30, 40)}

\* a path vector that is created holding a point
Vec_seeded == <<Pt(0, 0)>>

\* Vec::new()
Vec_new == <<>>

\* the goal test is also applied to the start point before the loop
Start_tested(start, g) ==
    /\ nodes = RRT_new(start)
    /\ goal = g
    /\ step_size = StepSize
    /\ goal_threshold = GoalThreshold
    /\ goal_reached = (distance(start, g) < GoalThreshold * GoalThreshold)
    /\ optimal_path = IF goal_reached THEN <<start>> ELSE Vec_new
    /\ rand_point = <<>>
    /\ nearest_index = <<>>
    /\ new_point = <<>>
    /\ samples_drawn = 0
    /\ add_calls = 0
    /\ notifications = 0
    /\ frame = 0

\* the state after `let mut optimal_path` of main
Start(start, g) ==
    /\ nodes = RRT_new(start)
    /\ goal = g
    /\ step_size = StepSize
    /\ goal_threshold = GoalThreshold
    /\ goal_reached = FALSE
    /\ optimal_path = Vec_new
    /\ rand_point = <<>>
    /\ nearest_index = <<>>
    /\ new_point = <<>>
    /\ samples_drawn = 0
    /\ add_calls = 0
    /\ notifications = 0
    /\ frame = 0

Init == \E start \in Starts, g \in Goals : Start(start, g)

\* the body of `if !goal_reached { ... }` for the sample s
Grow(s) ==
    LET nearest == find_nearest(nodes, s)
        from == Node(nodes, nearest).point
        np == steer(from, s)
        free == is_collision_free(np)
        ns2 == IF free THEN add_node(nodes, np, nearest) ELSE nodes
        hit == goal_test(np)
    IN /\ Representable(step_size, from, s)
       /\ rand_point' = <<s>>
       /\ nearest_index' = <<nearest>>
       /\ new_point' = <<np>>
       /\ samples_drawn' = samples_drawn + 1
       /\ nodes' = ns2
       /\ add_calls' = IF free THEN add_calls + 1 ELSE add_calls
       /\ goal_reached' = IF hit THEN TRUE ELSE goal_reached
       /\ optimal_path' = IF hit THEN trace_path(ns2) ELSE optimal_path
       /\ notifications' = IF hit THEN notifications + 1 ELSE notifications
       /\ UNCHANGED <<goal, step_size, goal_threshold>>

\* one loop iteration in which the tree grows
GrowFrame ==
    /\ frame < MaxFrames
    /\ growing
    /\ \E s \in Samples : Grow(s)
    /\ frame' = frame + 1

\* one loop iteration that only renders
RenderFrame ==
    /\ frame < MaxFrames
    /\ ~growing
    /\ frame' = frame + 1
    /\ UNCHANGED <<nodes, goal, step_size, goal_threshold, goal_reached,
                   optimal_path, rand_point, nearest_index, new_point,
                   samples_drawn, add_calls, notifications>>

Next == GrowFrame \/ RenderFrame

Spec == Init /\ [][Next]_vars

\* ------------------------------------------- the forced-sampler scenario
ScenarioStarts == {Pt(0, 0), Pt(0, 10), Pt(10, 0)}
ScenarioGoals ==
    {Pt(100, 0), Pt(100, 10), Pt(0, 100), Pt(10, 100), Pt(60, 80), Pt(80, 60),
     Pt(30, 40), Pt(50, 0), Pt(0, 50)}

InitScenario ==
    \E start \in ScenarioStarts, g \in ScenarioGoals :
        /\ Representable(StepSize, start, g)
        /\ Start(start, g)

\* the sampler returns the goal point on every call
ScenarioGrowFrame ==
    /\ frame < MaxScenarioFrames
    /\ growing
    /\ Grow(goal)
    /\ frame' = frame + 1

ScenarioRenderFrame ==
    /\ frame < MaxScenarioFrames
    /\ ~growing
    /\ frame' = frame + 1
    /\ UNCHANGED <<nodes, goal, step_size, goal_threshold, goal_reached,
                   optimal_path, rand_point, nearest_index, new_point,
                   samples_drawn, add_calls, notifications>>

NextScenario == ScenarioGrowFrame \/ ScenarioRenderFrame

SpecScenario == InitScenario /\ [][NextScenario]_vars

\* ----------------------------------------------------------- properties
NodeIndices == 0..(Len(nodes) - 1)

\* C1: node 0 has no parent and every node i > 0 has a parent index p with
\* 0 <= p < i, so the parent links form a tree rooted at node 0
C1_TreeInvariant ==
    /\ Len(nodes) >= 1
    /\ Node(nodes, 0).parent = None
    /\ \A i \in NodeIndices \ {0} :
          /\ IsSome(Node(nodes, i).parent)
          /\ 0 <= Unwrap(Node(nodes, i).parent)
          /\ Unwrap(Node(nodes, i).parent) < i

\* a tree that branches: some node's parent is not its predecessor
C1_Witness ==
    /\ Len(nodes) >= 4
    /\ \E i \in NodeIndices \ {0} : Unwrap(Node(nodes, i).parent) < i - 1
    /\ \E i \in NodeIndices \ {0} : Unwrap(Node(nodes, i).parent) > 0

\* C2: whenever goal_reached holds, optimal_path starts at the root's point,
\* ends at the steered point that passed the goal test, and every two
\* consecutive points are a parent's point followed by its child's point
C2_PathIsChain ==
    goal_reached =>
        /\ Len(optimal_path) >= 1
        /\ optimal_path[1] = Node(nodes, 0).point
        /\ Len(new_point) = 1
        /\ optimal_path[Len(optimal_path)] = new_point[1]
        /\ distance(new_point[1], goal) < goal_threshold * goal_threshold
        /\ \A k \in 1..(Len(optimal_path) - 1) :
              \E i \in NodeIndices \ {0} :
                  /\ IsSome(Node(nodes, i).parent)
                  /\ optimal_path[k] = Node(nodes, Unwrap(Node(nodes, i).parent)).point
                  /\ optimal_path[k + 1] = Node(nodes, i).point

\* the goal was reached along a branch that is not the whole tree
C2_Witness ==
    /\ goal_reached
    /\ Len(optimal_path) >= 3
    /\ Len(optimal_path) < Len(nodes)

\* C3: once goal_reached is true, every later loop iteration keeps it true,
\* draws no sample, appends no node and leaves the cached path alone
C3_ReachedAbsorbing ==
    [][goal_reached =>
          /\ goal_reached'
          /\ samples_drawn' = samples_drawn
          /\ nodes' = nodes
          /\ optimal_path' = optimal_path]_vars

\* two loop iterations have run after the goal was reached
C3_Witness ==
    /\ goal_reached
    /\ frame >= samples_drawn + 2

\* C4: a growing iteration sets goal_reached iff its steered point is at a
\* distance strictly below goal_threshold from the goal
C4_StrictThreshold ==
    [][(~goal_reached /\ frame' # frame) =>
          /\ Len(new_point') = 1
          /\ goal_reached' <=>
                (distance(new_point'[1], goal) < goal_threshold * goal_threshold)]_vars

\* a steered point at distance exactly goal_threshold left the loop growing
C4_Witness ==
    /\ ~goal_reached
    /\ Len(new_point) = 1
    /\ distance(new_point[1], goal) = goal_threshold * goal_threshold

\* C5: for every query point, find_nearest returns a valid index whose node
\* is at least as near to the query as every other node
C5_NearestIsArgmin ==
    \A q \in Samples :
        LET i == find_nearest(nodes, q)
        IN /\ i \in NodeIndices
           /\ \A j \in NodeIndices :
                 distance(Node(nodes, i).point, q) <= distance(Node(nodes, j).point, q)

\* the last growth step extended a node that is neither the root nor the
\* node inserted just before it, and that node was strictly nearest
C5_Witness ==
    /\ Len(nodes) >= 4
    /\ Len(nearest_index) = 1
    /\ nearest_index[1] \notin {0, Len(nodes) - 2}
    /\ \A j \in 0..(Len(nodes) - 2) :
          j # nearest_index[1] =>
              distance(Node(nodes, nearest_index[1]).point, rand_point[1])
                  < distance(Node(nodes, j).point, rand_point[1])

\* the nodes reached from node i by following parent links at least once
RECURSIVE Ancestors(_)
Ancestors(i) ==
    IF IsSome(Node(nodes, i).parent)
    THEN {Unwrap(Node(nodes, i).parent)} \cup Ancestors(Unwrap(Node(nodes, i).parent))
    ELSE {}

\* C6: trace_path starts at the root's point, ends at the point of the last
\* inserted node and has 1 + (number of ancestors of that node) points
C6_TracePathShape ==
    LET path == trace_path(nodes)
        last == Len(nodes) - 1
    IN /\ Len(path) >= 1
       /\ path[1] = Node(nodes, 0).point
       /\ path[Len(path)] = Node(nodes, last).point
       /\ Len(path) = 1 + Cardinality(Ancestors(last))

\* the last node sits on a branch: it has ancestors, but not all other nodes
C6_Witness ==
    /\ Len(nodes) >= 4
    /\ Cardinality(Ancestors(Len(nodes) - 1)) \in 2..(Len(nodes) - 2)
    /\ Len(trace_path(nodes)) = 1 + Cardinality(Ancestors(Len(nodes) - 1))

\* C7: the node count is 1 at the start, grows by exactly one with each
\* add_node call and is changed by nothing else, so it never drops below 1
C7_NodeCount ==
    /\ Len(nodes) = 1
    /\ [][/\ Len(nodes) >= 1
          /\ add_calls' \in {add_calls, add_calls + 1}
          /\ Len(nodes') = Len(nodes) + (add_calls' - add_calls)]_vars

\* add_node has been called three times and the tree has four nodes
C7_Witness ==
    /\ add_calls = 3
    /\ Len(nodes) = 4

\* C8: the cached path is non-empty exactly when goal_reached is true
C8_PathIffReached == (optimal_path # <<>>) <=> goal_reached

\* the goal was reached by the first steered point and a path is cached
C8_Witness ==
    /\ goal_reached
    /\ add_calls = 1
    /\ Len(optimal_path) = 2

\* C9: root (0,0), goal (100,0), step 10, threshold 10, sampler fixed at
\* (100,0): after k iterations, 1 <= k <= 10, there are k + 1 nodes, node j
\* is (10j, 0) with parent j - 1, and goal_reached holds exactly at k = 10
C9_Scenario ==
    (/\ Node(nodes, 0).point = Pt(0, 0)
     /\ goal = Pt(100, 0)
     /\ step_size = 10
     /\ goal_threshold = 10
     /\ frame \in 1..10)
    => /\ Len(nodes) = frame + 1
       /\ \A j \in 1..frame : Node(nodes, j) = Node_new(Pt(10 * j, 0), Some(j - 1))
       /\ rand_point = <<Pt(100, 0)>>
       /\ goal_reached <=> (frame = 10)

\* the tenth iteration of that run inserted node 10 at the goal
C9_Witness ==
    /\ Node(nodes, 0).point = Pt(0, 0)
    /\ goal = Pt(100, 0)
    /\ frame = 10
    /\ Len(nodes) = 11
    /\ Node(nodes, 9).point = Pt(90, 0)
    /\ Node(nodes, 10).point = Pt(100, 0)
    /\ goal_reached

C11_NotifiedOnce ==
    [][/\ notifications' =
             notifications + (IF ~goal_reached /\ goal_reached' THEN 1 ELSE 0)
       /\ notifications' <= 1]_vars

\* the line was printed once and two later iterations printed nothing
C11_Witness ==
    /\ notifications = 1
    /\ goal_reached
    /\ samples_drawn = 1
    /\ frame >= 3

\* the sampling rectangle [min, max) x [min, max)
InPlane(p) ==
    /\ PlaneMin <= p.x /\ p.x < PlaneMax
    /\ PlaneMin <= p.y /\ p.y < PlaneMax

\* C12 as stated: with the start inside the sampling rectangle, every node
\* of the tree lies inside it
C12_NodesInPlane ==
    InPlane(Node(nodes, 0).point) =>
        \A i \in NodeIndices : InPlane(Node(nodes, i).point)

\* C12 amended: with the start inside the sampling rectangle, every node
\* lies at most step_size outside it in each coordinate
C12_NodesNearPlane ==
    InPlane(Node(nodes, 0).point) =>
        \A i \in NodeIndices :
            LET p == Node(nodes, i).point
            IN /\ PlaneMin - step_size <= p.x /\ p.x <= PlaneMax + step_size
               /\ PlaneMin - step_size <= p.y /\ p.y <= PlaneMax + step_size

\* the start is inside, one node lies below the rectangle and the last
\* growth step put a node outside it as well
C12_Witness ==
    /\ InPlane(Node(nodes, 0).point)
    /\ Len(new_point) = 1
    /\ ~InPlane(new_point[1])
    /\ Node(nodes, Len(nodes) - 1).point = new_point[1]
    /\ \E i \in NodeIndices : Node(nodes, i).point.x < PlaneMin

\* the points the program holds: node points, the goal and the samples
Points == {Node(nodes, i).point : i \in NodeIndices} \cup {goal} \cup Samples

C14_GrowthStep ==
    [][(~goal_reached /\ frame' # frame) =>
          /\ Len(rand_point') = 1 /\ Len(new_point') = 1
          /\ LET s == rand_point'[1]
                 n == find_nearest(nodes, s)
             IN /\ Len(nodes') = Len(nodes) + 1
                /\ SubSeq(nodes', 1, Len(nodes)) = nodes
                /\ Node(nodes', Len(nodes)).parent = Some(n)
                /\ Node(nodes', Len(nodes)).point = steer(Node(nodes, n).point, s)
                /\ new_point'[1] = Node(nodes', Len(nodes') - 1).point]_vars

\* three growth steps have run, the last from a node that is not the root,
\* and the point it tested is the last node's point
C14_Witness ==
    /\ samples_drawn = 3
    /\ Len(nodes) = 4
    /\ nearest_index[1] > 0
    /\ Node(nodes, 3).parent = Some(nearest_index[1])
    /\ Node(nodes, 3).point = new_point[1]

\* C15: when several nodes are at the same minimal distance from the query,
\* find_nearest returns the smallest index among them
C15_FirstMinimumWins ==
    \A q \in Samples :
        LET i == find_nearest(nodes, q)
        IN \A j \in NodeIndices :
              (distance(Node(nodes, j).point, q) = distance(Node(nodes, i).point, q))
                  => i <= j

\* the last growth step's sample was equally near to the node it extended
\* and to a later node of the tree it was drawn for
C15_Witness ==
    /\ Len(nearest_index) = 1
    /\ \E j \in 0..(Len(nodes) - 2) :
          /\ j > nearest_index[1]
          /\ distance(Node(nodes, j).point, rand_point[1])
                = distance(Node(nodes, nearest_index[1]).point, rand_point[1])
          /\ Node(nodes, j).point # Node(nodes, nearest_index[1]).point
    /\ Node(nodes, Len(nodes) - 1).parent = Some(nearest_index[1])

\* C16: no loop iteration changes an existing node (every index valid before
\* holds the same point and parent afterwards), and goal, step_size and
\* goal_threshold never change
C16_NodesImmutable ==
    [][/\ Len(nodes') >= Len(nodes)
       /\ \A i \in NodeIndices : Node(nodes', i) = Node(nodes, i)
       /\ goal' = goal
       /\ step_size' = step_size
       /\ goal_threshold' = goal_threshold]_vars

\* two nodes were added after the root, the path was traced, and a
\* rendering iteration followed
C16_Witness ==
    /\ Len(nodes) = 3
    /\ Node(nodes, 0).parent = None
    /\ goal_reached
    /\ Len(optimal_path) = 3
    /\ frame > samples_drawn

\* C17: when the sample is exactly the point of its nearest node, steer
\* returns (from.x + step_size, from.y) and the iteration appends that point
\* as a new child of the nearest node
C17_CoincidentSample ==
    [][(/\ ~goal_reached
        /\ frame' # frame
        /\ Len(rand_point') = 1
        /\ Node(nodes, find_nearest(nodes, rand_point'[1])).point = rand_point'[1]) =>
          LET n == find_nearest(nodes, rand_point'[1])
              from == Node(nodes, n).point
          IN /\ new_point' = <<Pt(from.x + step_size, from.y)>>
             /\ Len(nodes') = Len(nodes) + 1
             /\ Node(nodes', Len(nodes)) =
                   Node_new(Pt(from.x + step_size, from.y), Some(n))]_vars

\* the last growth step drew the point of a node that is not the root and
\* appended the point one step to its right as that node's child
C17_Witness ==
    /\ Len(nearest_index) = 1
    /\ nearest_index[1] > 0
    /\ Node(nodes, nearest_index[1]).point = rand_point[1]
    /\ Node(nodes, Len(nodes) - 1) =
          Node_new(Pt(rand_point[1].x + step_size, rand_point[1].y),
                   Some(nearest_index[1]))

\* C18: the backtracking loop of trace_path ends at a node without parent
\* after at most Len(nodes) - 1 parent steps, visits strictly decreasing
\* indices and reads no index outside the node list
C18_BacktrackTerminates ==
    LET v == trace_path_visits(nodes)
    IN /\ Len(v) - 1 <= Len(nodes) - 1
       /\ \A k \in 1..Len(v) : v[k] \in NodeIndices
       /\ \A k \in 1..(Len(v) - 1) : v[k + 1] < v[k]
       /\ Node(nodes, v[Len(v)]).parent = None
       /\ v[1] = Len(nodes) - 1

\* a chain of four nodes: the loop takes Len(nodes) - 1 parent steps
C18_Witness ==
    /\ Len(nodes) = 4
    /\ trace_path_visits(nodes) = <<3, 2, 1, 0>>
    /\ Len(trace_path(nodes)) = 4

\* C19: the loop starts with goal_reached false and the goal test is applied
\* to steered points only: goal_reached implies that a node was inserted,
\* also when the start is within goal_threshold of the goal, and a non-empty
\* cached path holds at least two points
C19_RootNeverTested ==
    /\ (frame = 0) => ~goal_reached
    /\ goal_reached => (add_calls >= 1 /\ Len(nodes) >= 2)
    /\ (optimal_path # <<>>) => Len(optimal_path) >= 2

\* the start is within goal_threshold of the goal and the loop is still
\* growing after its iterations
C19_Witness ==
    /\ distance(Node(nodes, 0).point, goal) < goal_threshold * goal_threshold
    /\ frame >= 2
    /\ Len(nodes) >= 3
    /\ ~goal_reached
    /\ optimal_path = <<>>

====
